---- MODULE Spec2Model ----
(***************************************************************************)
(* A model of country_converter_package: the classification table          *)
(* (classification_data.py), the resolver and correspondence builder       *)
(* (correspondence.py) and the conversion facade (convert.py).             *)
(*                                                                         *)
(* Python values are records of one shape, so that values of different     *)
(* Python types can be compared: t is the type tag, s the characters of a  *)
(* str or of a compiled pattern, n the number of an int, l the elements of *)
(* a list.  A str is a sequence of one-character strings.  A dict is a     *)
(* sequence of [k, v] entries in insertion order with distinct keys.       *)
(***************************************************************************)
EXTENDS Integers, Sequences, FiniteSets, TLC

VARIABLES source_classification, data, pc, call, ret, corr, trace

vars == <<source_classification, data, pc, call, ret, corr, trace>>

(***************************************************************************)
(* Python values                                                           *)
(***************************************************************************)
\* the sequence f, its elements evaluated once
Eager(f) == f \o <<>>

None == [t |-> "none", s |-> <<>>, n |-> 0, l |-> <<>>]

StrV(s) == [t |-> "str", s |-> s, n |-> 0, l |-> <<>>]

IntV(n) == [t |-> "int", s |-> <<>>, n |-> n, l |-> <<>>]

Pattern(s) == [t |-> "re", s |-> s, n |-> 0, l |-> <<>>]

ListV(l) == [t |-> "list", s |-> <<>>, n |-> 0, l |-> l]

\* an exception that propagates out of a call; s holds the name of its class
Raise(e) == [t |-> "raise", s |-> <<e>>, n |-> 0, l |-> <<>>]

IsRaise(r) == r.t = "raise"

(***************************************************************************)
(* str methods and int()                                                   *)
(***************************************************************************)
UpperLetters ==
  <<"A","B","C","D","E","F","G","H","I","J","K","L","M",
    "N","O","P","Q","R","S","T","U","V","W","X","Y","Z">>

LowerLetters ==
  <<"a","b","c","d","e","f","g","h","i","j","k","l","m",
    "n","o","p","q","r","s","t","u","v","w","x","y","z">>

Digits == <<"0","1","2","3","4","5","6","7","8","9">>

Range(seq) == { seq[i] : i \in 1..Len(seq) }

UpperSet == Range(UpperLetters)

LetterSet == UpperSet \cup Range(LowerLetters)

DigitSet == Range(Digits)

IsUpper(c) == c \in UpperSet

IsLetter(c) == c \in LetterSet

IsDigit(c) == c \in DigitSet

DigitVal(c) == (CHOOSE i \in 1..10 : Digits[i] = c) - 1

\* the lower-case letter of every upper-case letter
LowerOf ==
  [c \in UpperSet |-> LowerLetters[CHOOSE i \in 1..26 : UpperLetters[i] = c]]

\* \w of the re module
IsWord(c) == IsLetter(c) \/ IsDigit(c) \/ c = "_"

LowerChar(c) == IF IsUpper(c) THEN LowerOf[c] ELSE c

\* str.lower()
StrLower(s) == Eager([i \in 1..Len(s) |-> LowerChar(s[i])])

RECURSIVE LStrip(_)
LStrip(s) == IF s # <<>> /\ Head(s) = " " THEN LStrip(Tail(s)) ELSE s

RECURSIVE RStrip(_)
RStrip(s) ==
  IF s # <<>> /\ s[Len(s)] = " " THEN RStrip(SubSeq(s, 1, Len(s) - 1)) ELSE s

\* str.strip()
Strip(s) == RStrip(LStrip(s))

\* the digits of an int literal, after the surrounding blanks and the sign
IntBody(s) ==
  LET u == Strip(s)
  IN IF u # <<>> /\ Head(u) \in {"+", "-"} THEN Tail(u) ELSE u

\* int(s) does not raise ValueError
IsIntStr(s) == IntBody(s) # <<>> /\ \A i \in 1..Len(IntBody(s)) : IsDigit(IntBody(s)[i])

RECURSIVE DigitsVal(_)
DigitsVal(d) ==
  IF d = <<>> THEN 0 ELSE 10 * DigitsVal(SubSeq(d, 1, Len(d) - 1)) + DigitVal(d[Len(d)])

\* int(s), for a str s that int() accepts
IntOfStr(s) ==
  LET u == Strip(s)
  IN IF Head(u) = "-" THEN 0 - DigitsVal(IntBody(s)) ELSE DigitsVal(IntBody(s))

(***************************************************************************)
(* classification_data._check_int                                          *)
(***************************************************************************)
_check_int(value) ==
  IF value.t = "str" /\ IsIntStr(value.s) THEN IntV(IntOfStr(value.s)) ELSE value

(***************************************************************************)
(* The re module, for patterns made of literal characters, "\\w", ".*"     *)
(* and the alternation "|".  A pattern is a sequence of such tokens.       *)
(***************************************************************************)
RECURSIVE SplitOn(_, _)
\* str.split(sep), as a sequence of the pieces
SplitOn(s, sep) ==
  IF \E i \in 1..Len(s) : s[i] = sep
  THEN LET i == CHOOSE j \in 1..Len(s) : s[j] = sep /\ \A h \in 1..(j - 1) : s[h] # sep
       IN <<SubSeq(s, 1, i - 1)>> \o SplitOn(SubSeq(s, i + 1, Len(s)), sep)
  ELSE <<s>>

RECURSIVE MatchAt(_, _, _, _)
\* the tokens p[h..] match the text s starting at position i
MatchAt(p, h, s, i) ==
  IF h > Len(p) THEN TRUE
  ELSE IF p[h] = ".*" THEN \E j \in i..(Len(s) + 1) : MatchAt(p, h + 1, s, j)
  ELSE IF i > Len(s) THEN FALSE
  ELSE IF p[h] = "\\w" THEN IsWord(s[i]) /\ MatchAt(p, h + 1, s, i + 1)
  ELSE s[i] = p[h] /\ MatchAt(p, h + 1, s, i + 1)

\* the positions of s at which some alternative of the pattern p matches
MatchStarts(p, s) ==
  LET alts == SplitOn(p, "|")
  IN { i \in 1..(Len(s) + 1) : \E a \in 1..Len(alts) : MatchAt(alts[a], 1, s, i) }

\* Pattern.search(s) finds a match
Search(p, s) ==
  LET alts == SplitOn(p, "|")
  IN \E i \in 1..(Len(s) + 1) : \E a \in 1..Len(alts) : MatchAt(alts[a], 1, s, i)

\* Pattern.split(s)[0]: the text before the leftmost match, s without a match
SplitFirst(p, s) ==
  LET starts == MatchStarts(p, s)
  IN IF starts = {} THEN s
     ELSE SubSeq(s, 1, (CHOOSE i \in starts : \A j \in starts : i <= j) - 1)

RECURSIVE JoinAlt(_)
\* "|".join(patterns)
JoinAlt(ps) ==
  IF ps = <<>> THEN <<>>
  ELSE IF Len(ps) = 1 THEN ps[1]
  ELSE ps[1] \o <<"|">> \o JoinAlt(Tail(ps))

(***************************************************************************)
(* dict                                                                    *)
(***************************************************************************)
DictHas(d, k) == \E i \in 1..Len(d) : d[i].k = k

DictGet(d, k) == d[CHOOSE i \in 1..Len(d) : d[i].k = k].v

\* d[k] = v: an existing key keeps its place
DictSet(d, k, v) ==
  IF DictHas(d, k)
  THEN Eager([i \in 1..Len(d) |-> IF d[i].k = k THEN [k |-> k, v |-> v] ELSE d[i]])
  ELSE Append(d, [k |-> k, v |-> v])

RECURSIVE DictMerge(_, _)
\* d | e
DictMerge(d, e) ==
  IF e = <<>> THEN d ELSE DictMerge(DictSet(d, e[1].k, e[1].v), Tail(e))

(***************************************************************************)
(* Names of schemes                                                        *)
(***************************************************************************)
S_regex == StrV(<<"r","e","g","e","x">>)

S_iso2 == StrV(<<"i","s","o","2">>)

S_iso3 == StrV(<<"i","s","o","3">>)

S_isonumeric == StrV(<<"i","s","o","n","u","m","e","r","i","c">>)

S_name_short == StrV(<<"n","a","m","e","_","s","h","o","r","t">>)

S_unmember == StrV(<<"u","n","m","e","m","b","e","r">>)

(***************************************************************************)
(* The document json.load(FILE) returns: one record per country, under the *)
(* country's regular expression.                                           *)
(***************************************************************************)
Record(name_short, ISO2, ISO3, isonumeric, unmember) ==
  << [k |-> StrV(<<"n","a","m","e","_","s","h","o","r","t">>), v |-> name_short],
     [k |-> StrV(<<"I","S","O","2">>), v |-> ISO2],
     [k |-> StrV(<<"I","S","O","3">>), v |-> ISO3],
     [k |-> StrV(<<"i","s","o","n","u","m","e","r","i","c">>), v |-> isonumeric],
     [k |-> StrV(<<"u","n","m","e","m","b","e","r">>), v |-> unmember] >>

country_data ==
  << [k |-> StrV(<<"g","e","r","m","a","n","y">>),
      v |-> Record(StrV(<<"G","e","r","m","a","n","y">>),
                  StrV(<<"D","E">>),
                  StrV(<<"D","E","U">>),
                  IntV(276),
                  IntV(1973))],
     [k |-> StrV(<<"c","h","i","n","a">>),
      v |-> Record(StrV(<<"C","h","i","n","a">>),
                  StrV(<<"C","N">>),
                  StrV(<<"C","H","N">>),
                  IntV(156),
                  IntV(1945))],
     [k |-> StrV(<<"h","o","n","g"," ","k","o","n","g">>),
      v |-> Record(StrV(<<"H","o","n","g"," ","K","o","n","g">>),
                  StrV(<<"H","K">>),
                  StrV(<<"H","K","G">>),
                  StrV(<<"3","4","4">>),
                  StrV(<<>>))],
     [k |-> StrV(<<"e","a","s","t"," ","g","e","r","m","a","n","y">>),
      v |-> Record(StrV(<<"G","D","R">>),
                  StrV(<<"D","D">>),
                  StrV(<<"D","D","R">>),
                  IntV(278),
                  IntV(1973))],
     [k |-> StrV(<<"g","r","e","e","c","e","|","h","e","l","l","a","s">>),
      v |-> Record(StrV(<<"G","r","e","e","c","e">>),
                  StrV(<<"G","R","|","E","L">>),
                  StrV(<<"G","R","C">>),
                  IntV(300),
                  IntV(1945))],
     [k |-> StrV(<<"k","o","s","o","v","o">>),
      v |-> Record(StrV(<<"K","o","s","o","v","o">>),
                  StrV(<<"X","K">>),
                  StrV(<<"X","K","X">>),
                  StrV(<<>>),
                  StrV(<<>>))] >>

(***************************************************************************)
(* classification_data.py: building the table                              *)
(***************************************************************************)
\* the outcome of a step that may raise: err is None or the exception
Ok(val) == [err |-> None, val |-> val]

Fail(e) == [err |-> Raise(e), val |-> <<>>]

\* the default of ClassificationData.lower, which DATA keeps
lower == TRUE

LowerKey(k) == IF k.t = "str" THEN StrV(StrLower(k.s)) ELSE k

\* _to_lower of one record: its keys in lower case, its values as they are
_to_lower_record(rec) ==
  DictMerge(<<>>, Eager([i \in 1..Len(rec) |->
                           [k |-> LowerKey(rec[i].k), v |-> rec[i].v]]))

_to_lower(d) ==
  DictMerge(<<>>, Eager([i \in 1..Len(d) |->
                           [k |-> LowerKey(d[i].k), v |-> _to_lower_record(d[i].v)]]))

\* _convert_int: the values of every record through _check_int (no field of
\* the table is named by an int literal, so the keys stay as they are)
_convert_int(d) ==
  Eager([i \in 1..Len(d) |->
           [k |-> d[i].k,
            v |-> Eager([j \in 1..Len(d[i].v) |->
                           [k |-> d[i].v[j].k, v |-> _check_int(d[i].v[j].v)]])]])

RECURSIVE KeysToInt(_, _)
KeysToInt(new_dict, d) ==
  IF d = <<>> THEN new_dict
  ELSE KeysToInt(DictSet(DictSet(new_dict, d[1].k, d[1].v), _check_int(d[1].k), d[1].v),
                 Tail(d))

_keys_to_int(d) == KeysToInt(<<>>, d)

_compile_regex_keys(d) ==
  DictMerge(<<>>, Eager([i \in 1..Len(d) |-> [k |-> Pattern(d[i].k.s), v |-> d[i].v]]))

\* the set of the names of the fields of the records
_get_unique_keys(d) ==
  UNION { { d[i].v[j].k : j \in 1..Len(d[i].v) } : i \in 1..Len(d) }

RECURSIVE ReKey(_, _, _)
\* the loop of _change_top_key_value over the records still to come
ReKey(new_dict, rest, new_key) ==
  IF rest = <<>> THEN Ok(new_dict)
  ELSE IF ~DictHas(rest[1].v, new_key) THEN Fail("KeyError")
  ELSE LET nk == DictGet(rest[1].v, new_key)
       IN IF nk = StrV(<<>>)
          THEN ReKey(new_dict, Tail(rest), new_key)
          ELSE ReKey(DictSet(new_dict, nk, rest[1].v), Tail(rest), new_key)

\* _change_top_key_value reading the records from the last to the first, so
\* that the first record of a shared value is the one kept
_change_top_key_value_first_wins(new_key, d0, to_lower) ==
  LET d == IF to_lower THEN _to_lower(d0) ELSE d0
  IN IF new_key \notin _get_unique_keys(d)
     THEN Fail("KeyError")
     ELSE ReKey(<<>>, [i \in 1..Len(d) |-> d[Len(d) + 1 - i]], new_key)

_change_top_key_value(new_key, d0, to_lower) ==
  LET d == IF to_lower THEN _to_lower(d0) ELSE d0
  IN IF new_key \notin _get_unique_keys(d)
     THEN Fail("KeyError")
     ELSE ReKey(<<>>, d, new_key)

\* _read_classification_json after the top key is changed
ReadChanged(index, lower_, changed) ==
  IF IsRaise(changed.err) THEN changed
  ELSE IF index = S_iso2
  THEN Ok(_compile_regex_keys(
            _convert_int(IF lower_ THEN _to_lower(changed.val) ELSE changed.val)))
  ELSE Ok(_keys_to_int(
            _convert_int(IF lower_ THEN _to_lower(changed.val) ELSE changed.val)))

_read_classification_json(index, lower_) ==
  IF index # S_regex
  THEN ReadChanged(index, lower_, _change_top_key_value(index, country_data, lower_))
  ELSE Ok(_compile_regex_keys(
            _convert_int(IF lower_ THEN _to_lower(country_data) ELSE country_data)))

\* the end of set_source: source_classification is already set to source
\* when the data is read, and self.data is assigned unless the reading raised
Assign(tb, source, read) ==
  [sc |-> source, data |-> IF IsRaise(read.err) THEN tb.data ELSE read.val,
   err |-> read.err]

\* ClassificationData.set_source on the table tb = [sc, data]: the table it
\* leaves and the exception it raises, if any
set_source(tb, source) ==
  IF source = tb.sc THEN [sc |-> tb.sc, data |-> tb.data, err |-> None]
  ELSE Assign(tb, source, _read_classification_json(source, lower))

\* ClassificationData(): DATA as convert.py constructs it
InitialTable ==
  [sc |-> S_regex, data |-> _read_classification_json(S_regex, lower).val]

(***************************************************************************)
(* correspondence.py: ClassificationCorrespondence                         *)
(***************************************************************************)
guess_format(name) ==
  IF name.t = "int" \/ (name.t = "str" /\ IsIntStr(name.s)) THEN S_isonumeric
  ELSE IF Len(name.s) = 2 THEN S_iso2
  ELSE IF Len(name.s) = 3 THEN S_iso3
  ELSE S_regex

\* re.sub("[^a-zA-Z]+", "", c.split("|")[0])
CleanIso2(c) == SelectSeq(SplitOn(c, "|")[1], IsLetter)

\* the keys of the table, in the order of the table
TableKeys(d) == Eager([i \in 1..Len(d) |-> d[i].k])

\* the last part of match_key: the values of the target field under the keys
TargetValues(d, keys, target) ==
  IF \E i \in 1..Len(keys) :
       ~DictHas(d, keys[i]) \/ ~DictHas(DictGet(d, keys[i]), target)
  THEN Raise("KeyError")
  ELSE LET raw == Eager([i \in 1..Len(keys) |-> DictGet(DictGet(d, keys[i]), target)])
       IN IF target = S_iso2 /\ \E i \in 1..Len(raw) : raw[i].t # "str"
          THEN Raise("AttributeError")
          ELSE LET result == IF target = S_iso2
                             THEN Eager([i \in 1..Len(raw) |-> StrV(CleanIso2(raw[i].s))])
                             ELSE raw
               IN IF Len(result) = 1 THEN result[1] ELSE ListV(result)

\* match_key that keeps the first match only
match_key_first(tb, key, target, default) ==
  IF tb.sc \in {S_regex, S_iso2}
  THEN IF tb.data # <<>>
          /\ (key.t # "str" \/ \E i \in 1..Len(tb.data) : tb.data[i].k.t # "re")
       THEN Raise("AttributeError")
       ELSE LET hit(k) == Search(k.s, StrLower(key.s))
                matching == SelectSeq(TableKeys(tb.data), hit)
            IN IF Len(matching) < 1 THEN default
               ELSE TargetValues(tb.data, <<matching[1]>>, target)
  ELSE LET key_lower == <<LowerKey(key)>>
           key_lower_ == Eager([i \in 1..Len(key_lower) |->
                                  IF ~DictHas(tb.data, key_lower[i]) THEN default
                                  ELSE key_lower[i]])
       IN IF key_lower # key_lower_ THEN ListV(key_lower_)
          ELSE TargetValues(tb.data, key_lower, target)

\* match_key on the table tb: the value returned, or the exception raised
match_key(tb, key, target, default) ==
  IF tb.sc \in {S_regex, S_iso2}
  THEN IF tb.data # <<>>
          /\ (key.t # "str" \/ \E i \in 1..Len(tb.data) : tb.data[i].k.t # "re")
       THEN Raise("AttributeError")
       ELSE LET hit(k) == Search(k.s, StrLower(key.s))
                matching == SelectSeq(TableKeys(tb.data), hit)
            IN IF Len(matching) < 1 THEN default
               ELSE TargetValues(tb.data, matching, target)
  ELSE LET key_lower == <<LowerKey(key)>>
           key_lower_ == Eager([i \in 1..Len(key_lower) |->
                                  IF ~DictHas(tb.data, key_lower[i]) THEN default
                                  ELSE key_lower[i]])
       IN IF key_lower # key_lower_ THEN ListV(key_lower_)
          ELSE TargetValues(tb.data, key_lower, target)

\* the exclusion prefixes a call passes: none, or a list of patterns
NoPrefix == [given |-> FALSE, prefixes |-> <<>>]

Prefixes(ps) == [given |-> TRUE, prefixes |-> ps]

\* _separate_exclude_cases(name, exclude_prefix)["clean_name"]
_separate_exclude_cases(name, exclude_prefix) ==
  IF name.t # "str" THEN Fail("TypeError")
  ELSE Ok(StrV(Strip(SplitFirst(JoinAlt(exclude_prefix), name.s))))

\* the rounds of the loop of correspondence_dictionary.  st holds the local
\* source, the table (sc, data), the mapping built so far (match), the
\* exception raised (err) and what the rounds did (trace).

\* the end of a round: the cleaned key is resolved and entered
Resolve(st, k, target, default, clean) ==
  LET m == match_key([sc |-> st.sc, data |-> st.data], clean, target,
                     IF default = None THEN clean ELSE default)
  IN IF IsRaise(m) THEN [st EXCEPT !.err = m]
     ELSE [st EXCEPT !.match = DictSet(st.match, clean, m),
                     !.trace = Append(st.trace,
                                      [key |-> k, source |-> st.source,
                                       active |-> st.sc, clean |-> clean,
                                       value |-> m])]

\* the middle of a round: the exclusion is cut off the key, clean being
\* what _separate_exclude_cases gave, or the key as it is
Clean(st, k, target, default, clean) ==
  IF IsRaise(clean.err) THEN [st EXCEPT !.err = clean.err]
  ELSE Resolve(st, k, target, default, clean.val)

\* the table of st replaced by the table tb that set_source left
WithTable(st, tb) == [st EXCEPT !.sc = tb.sc, !.data = tb.data, !.err = tb.err]

\* a round after the table is re-keyed, which may have raised
Switch(st, k, target, default, exclude_prefix) ==
  IF IsRaise(st.err) THEN st
  ELSE Clean(st, k, target, default,
             IF exclude_prefix.given
             THEN _separate_exclude_cases(k, exclude_prefix.prefixes)
             ELSE Ok(k))

\* a round that leaves the table keyed as it finds it
CorrStep_on_active_scheme(st, k, target, default, exclude_prefix) ==
  LET source == IF st.source = None THEN guess_format(k) ELSE st.source
  IN Switch([st EXCEPT !.source = source], k, target, default, exclude_prefix)

\* one round of the loop of correspondence_dictionary, for the key k: the
\* local source is guessed from k only while it is still None, and the table
\* is re-keyed if the source is not its active scheme
CorrStep(st, k, target, default, exclude_prefix) ==
  LET source == IF st.source = None THEN guess_format(k) ELSE st.source
  IN Switch(WithTable([st EXCEPT !.source = source],
                      set_source([sc |-> st.sc, data |-> st.data], source)),
            k, target, default, exclude_prefix)

RECURSIVE CorrLoop(_, _, _, _, _)
CorrLoop(st, order, target, default, exclude_prefix) ==
  IF order = <<>> \/ IsRaise(st.err) THEN st
  ELSE CorrLoop(CorrStep(st, Head(order), target, default, exclude_prefix),
                Tail(order), target, default, exclude_prefix)

\* the orders in which a set built from keys can be iterated
Orders(keys) ==
  { o \in [1..Cardinality(Range(keys)) -> Range(keys)] : Range(o) = Range(keys) }

\* correspondence_dictionary on the table tb, iterating set(keys) in the
\* given order: the table it leaves, the mapping it returns (match), the
\* exception it raises (err), and what each round did (trace)
correspondence_dictionary(tb, keys, source, target, default, exclude_prefix, order) ==
  CorrLoop([source |-> source, sc |-> tb.sc, data |-> tb.data,
            match |-> <<>>, trace |-> <<>>, err |-> None],
           order, target, default, exclude_prefix)

(***************************************************************************)
(* difflib, as _validate_class uses it                                     *)
(***************************************************************************)
\* the characters in the order of their code points
CodePoints ==
  <<" ", "+", "-", "/">> \o Digits \o UpperLetters \o <<"\\", "_">>
    \o LowerLetters \o <<"|">>

Ord(c) == CHOOSE i \in 1..Len(CodePoints) : CodePoints[i] = c

RECURSIVE StrLess(_, _)
\* a < b for two str
StrLess(a, b) ==
  IF b = <<>> THEN FALSE
  ELSE IF a = <<>> THEN TRUE
  ELSE IF Head(a) # Head(b) THEN Ord(Head(a)) < Ord(Head(b))
  ELSE StrLess(Tail(a), Tail(b))

RECURSIVE RunLen(_, _, _, _, _, _)
\* the length of the common run of a[i..ahi] and b[j..bhi] from their starts
RunLen(a, i, ahi, b, j, bhi) ==
  IF i > ahi \/ j > bhi \/ a[i] # b[j] THEN 0
  ELSE 1 + RunLen(a, i + 1, ahi, b, j + 1, bhi)

\* SequenceMatcher.find_longest_match: the longest block a[i..i+k-1] =
\* b[j..j+k-1] within a[alo..ahi] and b[blo..bhi]; of the longest ones the
\* earliest in a, and of those the earliest in b
find_longest_match(a, alo, ahi, b, blo, bhi) ==
  LET Blocks == { [i |-> c[1], j |-> c[2], k |-> RunLen(a, c[1], ahi, b, c[2], bhi)] :
                    c \in { d \in (alo..ahi) \X (blo..bhi) : a[d[1]] = b[d[2]] } }
  IN IF Blocks = {} THEN [i |-> alo, j |-> blo, k |-> 0]
     ELSE CHOOSE c \in Blocks :
            \A d \in Blocks :
              \/ d.k < c.k
              \/ d.k = c.k /\ (c.i < d.i \/ (c.i = d.i /\ c.j <= d.j))

RECURSIVE Matches(_, _, _, _, _, _)
\* the sum of the sizes of SequenceMatcher.get_matching_blocks
Matches(a, alo, ahi, b, blo, bhi) ==
  IF alo > ahi \/ blo > bhi THEN 0
  ELSE LET m == find_longest_match(a, alo, ahi, b, blo, bhi)
       IN IF m.k = 0 THEN 0
          ELSE m.k + Matches(a, alo, m.i - 1, b, blo, m.j - 1)
                   + Matches(a, m.i + m.k, ahi, b, m.j + m.k, bhi)

\* SequenceMatcher(a=x, b=word).ratio() as the fraction num / den
Ratio(x, word) ==
  IF Len(x) + Len(word) = 0 THEN [num |-> 1, den |-> 1]
  ELSE [num |-> 2 * Matches(x, 1, Len(x), word, 1, Len(word)),
        den |-> Len(x) + Len(word)]

\* difflib.get_close_matches(word, possibilities, cutoff=0.55)[0], or None:
\* the best of the possibilities whose ratio is at least 55/100, the greater
\* str among equally good ones
get_close_matches(word, possibilities) ==
  LET Scored == { [x |-> x, r |-> Ratio(x.s, word)] : x \in possibilities }
      Close == { c \in Scored : 100 * c.r.num >= 55 * c.r.den }
      Better(c, d) ==
        \/ c.r.num * d.r.den > d.r.num * c.r.den
        \/ c.r.num * d.r.den = d.r.num * c.r.den /\ StrLess(d.x.s, c.x.s)
  IN IF Close = {} THEN None
     ELSE (CHOOSE c \in Close : \A d \in Close \ {c} : Better(c, d)).x

(***************************************************************************)
(* convert.py: CountryConverter                                            *)
(***************************************************************************)
_validate_class(tb, classification) ==
  IF classification = None THEN None
  ELSE IF StrLower(classification.s) = S_regex.s THEN S_regex
  ELSE LET match == get_close_matches(StrLower(classification.s),
                                      _get_unique_keys(tb.data))
       IN IF match = None THEN None ELSE StrV(StrLower(match.s))

\* _validate_names_type: the names as a sequence, or TypeError
_validate_names_type(names) ==
  IF names.t \in {"str", "int"} THEN Ok(<<names>>)
  ELSE IF names.t = "list" THEN Ok(names.l)
  ELSE Fail("TypeError")

\* the additional_mapping a call passes: none, or a dict
NoMapping == [given |-> FALSE, items |-> <<>>]

Mapping(items) == [given |-> TRUE, items |-> items]

RECURSIVE LowerStrKeys(_, _)
LowerStrKeys(new_mapping, items) ==
  IF items = <<>> THEN new_mapping
  ELSE IF items[1].k.t = "str"
  THEN LowerStrKeys(DictSet(new_mapping, StrV(StrLower(items[1].k.s)), items[1].v),
                    Tail(items))
  ELSE LowerStrKeys(new_mapping, Tail(items))

_validate_additional_mapping(additional_mapping) ==
  IF ~additional_mapping.given THEN <<>>
  ELSE LowerStrKeys(<<>>, additional_mapping.items)

\* the exclude_prefix that convert sets when the caller gives none
DefaultExcludePrefix ==
  Prefixes(<< <<"e","x","c","l","\\w",".*">>,
              <<"w","i","t","h","o","u","t">>,
              <<"w","/","o">> >>)

\* dict.get(k)
Get(d, k) == IF DictHas(d, k) THEN DictGet(d, k) ELSE None

\* what convert leaves and gives: the table, the value it returns or the
\* exception it raises (ret), the correspondence it maps the names through
\* (corr) and what the rounds of its first correspondence_dictionary did
Outcome(tb, r, correspondence, rounds) ==
  [sc |-> tb.sc, data |-> tb.data, ret |-> r, corr |-> correspondence,
   trace |-> rounds]

\* Shaped with the single element given alone whatever enforce_list says
Shaped_unwrapping(tb, a, names, correspondence, rounds) ==
  LET converted_names ==
        Eager([i \in 1..Len(names) |-> Get(correspondence, names[i])])
  IN Outcome(tb,
             IF Len(converted_names) = 1
             THEN converted_names[1] ELSE ListV(converted_names),
             correspondence, rounds)

\* the end of convert: the names are mapped through the correspondence
Shaped(tb, a, names, correspondence, rounds) ==
  LET converted_names ==
        Eager([i \in 1..Len(names) |-> Get(correspondence, names[i])])
  IN Outcome(tb,
             IF ~a.enforce_list /\ Len(converted_names) = 1
             THEN converted_names[1] ELSE ListV(converted_names),
             correspondence, rounds)

\* convert with only_UNmember, after the correspondence c2 to unmember
Filtered(a, names, correspondence, rounds, c2) ==
  LET IsYear(e) == e.v.t = "int"
      un_correspondence == SelectSeq(c2.match, IsYear)
      IsMember(e) == DictHas(un_correspondence, e.k)
  IN IF IsRaise(c2.err) THEN Outcome(c2, c2.err, <<>>, rounds)
     ELSE Shaped(c2, a, names, SelectSeq(correspondence, IsMember), rounds)

\* convert after the first correspondence c1
Built(only_UNmember, a, order, from_class, names, exclude_prefix, c1) ==
  IF IsRaise(c1.err) THEN Outcome(c1, c1.err, <<>>, c1.trace)
  ELSE IF ~only_UNmember
  THEN Shaped(c1, a, names,
              DictMerge(c1.match, _validate_additional_mapping(a.additional_mapping)),
              c1.trace)
  ELSE Filtered(a, names,
                DictMerge(c1.match, _validate_additional_mapping(a.additional_mapping)),
                c1.trace,
                correspondence_dictionary(c1, names, from_class, S_unmember,
                                          StrV(<<>>), exclude_prefix, order))

\* convert after the validation of its arguments
Validated(tb, only_UNmember, a, order, from_class, to, names, exclude_prefix) ==
  IF IsRaise(names.err) THEN Outcome(tb, names.err, <<>>, <<>>)
  ELSE Built(only_UNmember, a, order, from_class, names.val, exclude_prefix,
             correspondence_dictionary(tb, names.val, from_class, to,
                                       a.not_found, exclude_prefix, order))

\* CountryConverter.convert of a converter with the given only_UNmember, on
\* the table tb, with the arguments a; order is the order in which
\* set(names) is iterated
convert(tb, only_UNmember, a, order) ==
  LET from_class == IF a.src # None THEN a.src ELSE a.from_class
  IN IF (a.src # None /\ from_class # None) /\ a.src # from_class
     THEN Outcome(tb, Raise("KeyError"), <<>>, <<>>)
     ELSE Validated(tb, only_UNmember, a, order,
                    _validate_class(tb, from_class), _validate_class(tb, a.to),
                    _validate_names_type(a.names),
                    IF a.exclude_prefix.given THEN a.exclude_prefix
                    ELSE DefaultExcludePrefix)

(***************************************************************************)
(* The inputs of the calls                                                 *)
(***************************************************************************)
\* found under regex
N_Germany == StrV(<<"G","e","r","m","a","n","y">>)

\* found under iso3
N_DEU == StrV(<<"D","E","U">>)

\* found under iso2
N_DE == StrV(<<"D","E">>)

\* found under isonumeric
N_344 == StrV(<<"3","4","4">>)

\* guessed regex, not found
N_Asia == StrV(<<"A","s","i","a">>)

\* guessed iso2, not found
N_zz == StrV(<<"z","z">>)

\* guessed iso3, not found
N_XYZ == StrV(<<"X","Y","Z">>)

\* guessed iso3, not found, in lower case
N_xyz == StrV(<<"x","y","z">>)

\* guessed isonumeric, not found
N_999 == StrV(<<"9","9","9">>)

\* found under regex, in lower case, not a UN member
N_HongKong == StrV(<<"h","o","n","g"," ","k","o","n","g">>)

\* matches two regular expressions
N_EastGermany == StrV(<<"E","a","s","t"," ","G","e","r","m","a","n","y">>)

\* an exclusion after a name that is not found
N_AsiaExcl == StrV(<<"A","s","i","a"," ","e","x","c","l","u","d","i","n","g"," ","C","h","i","n","a">>)

\* an exclusion after a name that is found
N_ChinaWo == StrV(<<"C","h","i","n","a"," ","w","/","o"," ","H","K">>)

\* two names that are found under regex, not in the order of the table
N_GreeceGermany ==
  StrV(<<"G","r","e","e","c","e",","," ","G","e","r","m","a","n","y">>)

\* the longest list of names a call passes
MaxNames == 2

\* the names a call passes alone
SingleNames ==
  { N_Germany, N_DEU, N_DE, N_344, N_Asia, N_zz, N_XYZ, N_xyz, N_999,
    N_HongKong, N_EastGermany, N_AsiaExcl, N_ChinaWo, IntV(276) }

\* the names a call passes in a list
BatchNames == { N_Germany, N_DEU, N_ChinaWo }

\* the lists of names
Batches == { ListV(l) : l \in UNION { [1..n -> BatchNames] : n \in 0..MaxNames } }

\* what a call passes as names: a name, a list of names, or None
NamesArgs == SingleNames \cup Batches \cup {None}

\* the elements of names, for a name alone the name
Elements(names) == IF names.t = "list" THEN names.l
                   ELSE IF names.t = "none" THEN <<>> ELSE <<names>>

S_ISO2 == StrV(<<"I","S","O","2">>)

\* a scheme name that is close to no scheme of the table
S_qqq == StrV(<<"q","q","q">>)

\* a scheme that no record has
S_bogus == StrV(<<"b","o","g","u","s">>)

V_XXX == StrV(<<"X","X","X">>)

\* an additional_mapping with keys in mixed, lower and upper case
SomeMapping ==
  Mapping(<< [k |-> N_Germany, v |-> StrV(<<"G">>)],
             [k |-> N_HongKong, v |-> StrV(<<"H">>)],
             [k |-> StrV(<<"X","Y","Z">>), v |-> StrV(<<"Z">>)],
             [k |-> StrV(<<"x","y","z">>), v |-> StrV(<<"z">>)] >>)

\* the arguments of convert(names)
DefaultArgs(n) ==
  [names |-> n, from_class |-> None, src |-> None,
   to |-> S_iso3, enforce_list |-> FALSE, not_found |-> None,
   exclude_prefix |-> NoPrefix, additional_mapping |-> NoMapping]

\* the calls of convert: names of every kind under the schemes, defaults
\* and shapes; the alias src beside from_class; an additional_mapping
ConvertArgs ==
  { [DefaultArgs(n) EXCEPT !.from_class = fc, !.to = t, !.enforce_list = el,
                           !.not_found = nf] :
      n \in NamesArgs, fc \in {None, S_iso3}, t \in {S_iso3, S_ISO2},
      el \in BOOLEAN, nf \in {None, V_XXX} }
  \cup
  { [DefaultArgs(n) EXCEPT !.from_class = fc, !.src = sr] :
      n \in {N_DEU, N_DE},
      fc \in {None, S_iso2, S_iso3}, sr \in {None, S_iso2, S_iso3} }
  \cup
  { [DefaultArgs(n) EXCEPT !.additional_mapping = SomeMapping, !.not_found = nf,
                           !.to = t] :
      n \in NamesArgs, nf \in {None, V_XXX}, t \in {S_iso3, S_qqq} }

CorrespondenceArgs ==
  { [keys |-> n, source |-> sr, target |-> t,
     default |-> d, exclude_prefix |-> ep] :
      n \in Batches, sr \in {None, S_iso3, S_regex, S_bogus},
      t \in {S_iso3, S_iso2}, d \in {None, V_XXX},
      ep \in {NoPrefix, DefaultExcludePrefix} }

MatchKeyArgs ==
  { [key |-> k, target |-> t, default |-> d] :
      k \in SingleNames \cup {N_GreeceGermany}, t \in {S_iso3, S_iso2},
      d \in {None, V_XXX, N_xyz, N_zz} }

SetSourceArgs == {S_regex, S_iso2, S_iso3, S_isonumeric, S_name_short, S_unmember, S_bogus}

(***************************************************************************)
(* The state machine: the shared table DATA, and the calls made on it one  *)
(* after the other.  A call runs as a whole; pc tells whether its result   *)
(* is still held by the caller.                                            *)
(***************************************************************************)
NoCall == [op |-> "none"]

Table == [sc |-> source_classification, data |-> data]

Init ==
  /\ source_classification = InitialTable.sc
  /\ data = InitialTable.data
  /\ pc = "idle"
  /\ call = NoCall
  /\ ret = None
  /\ corr = <<>>
  /\ trace = <<>>

\* DATA.set_source(source)
SetSource ==
  /\ pc = "idle"
  /\ \E source \in SetSourceArgs :
       \E r \in {set_source(Table, source)} :
          /\ source_classification' = r.sc
          /\ data' = r.data
          /\ ret' = r.err
          /\ call' = [op |-> "set_source", source |-> source]
  /\ pc' = "returned"
  /\ UNCHANGED <<corr, trace>>

\* matcher.match_key(key, target, default)
MatchKey ==
  /\ pc = "idle"
  /\ \E a \in MatchKeyArgs :
       /\ ret' = match_key(Table, a.key, a.target, a.default)
       /\ call' = [op |-> "match_key", a |-> a]
  /\ pc' = "returned"
  /\ UNCHANGED <<source_classification, data, corr, trace>>

\* matcher.correspondence_dictionary(keys, source=, target=, default=, exclude_prefix=)
CorrespondenceDictionary ==
  /\ pc = "idle"
  /\ \E a \in CorrespondenceArgs : \E order \in Orders(a.keys.l) :
       \E r \in {correspondence_dictionary(Table, a.keys.l, a.source, a.target,
                                           a.default, a.exclude_prefix, order)} :
          /\ source_classification' = r.sc
          /\ data' = r.data
          /\ ret' = r.err
          /\ corr' = r.match
          /\ trace' = r.trace
          /\ call' = [op |-> "correspondence_dictionary", a |-> a, order |-> order,
                       before |-> source_classification]
  /\ pc' = "returned"

\* CountryConverter(only_UNmember=...).convert(names, ...), the converter
\* being built on DATA
Convert ==
  /\ pc = "idle"
  /\ \E only_UNmember \in BOOLEAN, a \in ConvertArgs :
     \E order \in Orders(Elements(a.names)) :
       \E r \in {convert(Table, only_UNmember, a, order)} :
          /\ source_classification' = r.sc
          /\ data' = r.data
          /\ ret' = r.ret
          /\ corr' = r.corr
          /\ trace' = r.trace
          /\ call' = [op |-> "convert", only_UNmember |-> only_UNmember, a |-> a,
                       order |-> order]
  /\ pc' = "returned"

\* the caller takes the result; the table stays as the call left it
Return ==
  /\ pc = "returned"
  /\ pc' = "idle"
  /\ call' = NoCall
  /\ ret' = None
  /\ corr' = <<>>
  /\ trace' = <<>>
  /\ UNCHANGED <<source_classification, data>>

Next == SetSource \/ MatchKey \/ CorrespondenceDictionary \/ Convert \/ Return

Spec == Init /\ [][Next]_vars

(***************************************************************************)
(* What the claims speak of                                                *)
(***************************************************************************)
ConvertReturned == pc = "returned" /\ call.op = "convert"

CorrespondenceReturned == pc = "returned" /\ call.op = "correspondence_dictionary"

MatchKeyReturned == pc = "returned" /\ call.op = "match_key"

\* no entry of a table keyed by scheme matches the name
Unmatched(name, scheme) ==
  LET d == set_source(InitialTable, scheme).data
  IN IF scheme \in {S_regex, S_iso2}
     THEN \A i \in 1..Len(d) : ~Search(d[i].k.s, StrLower(name.s))
     ELSE ~DictHas(d, LowerKey(name))

\* the name holds a match of a default exclusion prefix
HasExclusion(name) ==
  name.t = "str" /\ MatchStarts(JoinAlt(DefaultExcludePrefix.prefixes), name.s) # {}

\* the part of the name before the exclusion
LeadingPart(name) == _separate_exclude_cases(name, DefaultExcludePrefix.prefixes).val

\* the source scheme of a call of convert for a name: declared, or guessed
SchemeFor(a, name) ==
  IF a.from_class = None THEN guess_format(name) ELSE _validate_class(Table, a.from_class)

\* the elements convert returned, one for each name
Returned == IF ~call.a.enforce_list /\ Len(Elements(call.a.names)) = 1
            THEN <<ret>> ELSE ret.l

\* C1 (as claimed): a name that matches no record comes back from convert
\* unchanged, as a scalar, when not_found is None, and as the not_found value
\* when one is given, under every source scheme declared or guessed (regex,
\* iso2, iso3, isonumeric).  Stated for a name alone that holds no exclusion,
\* without additional_mapping and without the UN filter.
C1_UnmatchedGivesDefault ==
  ( /\ ConvertReturned
    /\ call.a.names.t = "str"
    /\ ~HasExclusion(call.a.names)
    /\ ~call.only_UNmember
    /\ ~call.a.additional_mapping.given
    /\ ~call.a.enforce_list
    /\ call.a.to \in {S_iso3, S_ISO2}
    /\ SchemeFor(call.a, call.a.names) \in {S_regex, S_iso2, S_iso3, S_isonumeric}
    /\ Unmatched(call.a.names, SchemeFor(call.a, call.a.names)) )
  => ret = IF call.a.not_found = None THEN call.a.names ELSE call.a.not_found

\* the key of a match_key call matches no entry of the table
KeyNotFound ==
  IF source_classification \in {S_regex, S_iso2}
  THEN \A i \in 1..Len(data) : data[i].k.t = "re" /\ ~Search(data[i].k.s, StrLower(call.a.key.s))
  ELSE ~DictHas(data, LowerKey(call.a.key))

\* C2 (as claimed): match_key never raises for a key that is not found: for
\* every str key, target, default and active scheme, when the key matches no
\* entry the call completes and yields the default, also when the default
\* equals the key in lower case.
C2_NotFoundYieldsDefault ==
  (MatchKeyReturned /\ call.a.key.t = "str" /\ KeyNotFound)
  => (~IsRaise(ret) /\ ret = call.a.default)

\* C3 (as claimed): for a name that holds a match of a default exclusion
\* prefix, convert gives what it gives for the part of the name before the
\* match: convert("Asia excluding China") = convert("Asia").
C3_ExclusionStripped ==
  ( /\ ConvertReturned
    /\ HasExclusion(call.a.names)
    /\ ~call.only_UNmember
    /\ ~call.a.additional_mapping.given )
  => ret = convert(Table, FALSE, [call.a EXCEPT !.names = LeadingPart(call.a.names)],
                   <<LeadingPart(call.a.names)>>).ret

\* C4 (as claimed): in correspondence_dictionary with source unset, the
\* source is guessed for every key by itself, and every key is resolved while
\* the active scheme of the table is the scheme guessed for that key.
C4_GuessedPerKey ==
  (CorrespondenceReturned /\ call.a.source = None)
  => \A i \in 1..Len(trace) :
       /\ trace[i].source = guess_format(trace[i].key)
       /\ trace[i].active = guess_format(trace[i].key)

\* C5 (as claimed): with source unset, the correspondence returned for a
\* batch is the same for every order in which the keys are processed, and is
\* the mapping got by resolving every key alone.
C5_OrderIndependent ==
  (CorrespondenceReturned /\ call.a.source = None /\ ~IsRaise(ret))
  => /\ \A o \in Orders(call.a.keys.l) :
          \E r \in {correspondence_dictionary(Table, call.a.keys.l, None, call.a.target,
                                              call.a.default, call.a.exclude_prefix, o)} :
             ~IsRaise(r.err) /\ Range(r.match) = Range(corr)
     /\ \A i \in 1..Len(call.a.keys.l) :
          \E r \in {correspondence_dictionary(Table, <<call.a.keys.l[i]>>, None,
                                              call.a.target, call.a.default,
                                              call.a.exclude_prefix, <<call.a.keys.l[i]>>)} :
             ~IsRaise(r.err) /\ Range(r.match) \subseteq Range(corr)

\* the entries of the additional_mapping whose key is the name, in lower case
MappedAs(name) ==
  { i \in 1..Len(call.a.additional_mapping.items) :
      /\ call.a.additional_mapping.items[i].k.t = "str"
      /\ StrLower(call.a.additional_mapping.items[i].k.s) = StrLower(name.s) }

\* C6 (as claimed): an additional_mapping entry overrides what the table
\* gives for the same key, keys compared in lower case: for a name whose
\* lower-case form is that of a key of the mapping, a call of convert that
\* completes returns the value of the mapping.
C6_MappingOverrides ==
  ( /\ ConvertReturned
    /\ call.a.names.t = "str"
    /\ ~call.only_UNmember
    /\ call.a.additional_mapping.given
    /\ call.a.to = S_iso3
    /\ ~IsRaise(ret)
    /\ MappedAs(call.a.names) # {} )
  => \E i \in MappedAs(call.a.names) : ret = call.a.additional_mapping.items[i].v

\* the unmember value a name resolves to by itself, under the call's source
UnmemberOf(name) ==
  LET r == correspondence_dictionary(Table, <<name>>, _validate_class(Table, call.a.from_class),
                                     S_unmember, StrV(<<>>), DefaultExcludePrefix, <<name>>)
  IN IF IsRaise(r.err) \/ r.match = <<>> THEN None ELSE r.match[1].v

\* what convert gives for a name by itself without the UN filter
ConvertedOf(name) ==
  convert(Table, FALSE, [call.a EXCEPT !.names = name, !.enforce_list = FALSE], <<name>>).ret

\* C7 (as claimed): with only_UNmember, an input whose unmember value is not
\* an integer is dropped from the result of convert (it is None: neither
\* not_found nor an additional_mapping value), and an input whose unmember
\* value is an integer keeps its converted value.
C7_OnlyUNMembers ==
  (ConvertReturned /\ call.only_UNmember /\ call.a.src = None /\ ~IsRaise(ret))
  => \A i \in 1..Len(Elements(call.a.names)) :
       Returned[i] = IF UnmemberOf(Elements(call.a.names)[i]).t = "int"
                     THEN ConvertedOf(Elements(call.a.names)[i])
                     ELSE None

\* C8: convert maps every input element through the correspondence, in the
\* order of the input and with its duplicates: a call that completes on n
\* names gives n elements, the i-th being the entry of the correspondence for
\* the i-th name (None without one), equal names giving equal elements; a
\* list of one repeated name gives for every element what convert gives for
\* that name alone; the result is the single element itself exactly when
\* enforce_list is false and n = 1, and the list of the elements otherwise.
C8_OrderAndShape ==
  (ConvertReturned /\ ~IsRaise(ret))
  => LET names == Elements(call.a.names)
         n == Len(names)
     IN /\ IF ~call.a.enforce_list /\ n = 1
           THEN ret = Get(corr, names[1])
           ELSE /\ ret.t = "list"
                /\ Len(ret.l) = n
                /\ \A i \in 1..n : ret.l[i] = Get(corr, names[i])
        /\ \A i, j \in 1..n : names[i] = names[j] => Returned[i] = Returned[j]
        /\ (n >= 1 /\ Range(names) = {names[1]})
           => \A i \in 1..n :
                Returned[i] = convert(Table, call.only_UNmember,
                                      [call.a EXCEPT !.names = names[1],
                                                     !.enforce_list = FALSE],
                                      <<names[1]>>).ret

\* C8 witness: a call on a list of two equal names has completed with a list
C8_Witness ==
  /\ ConvertReturned
  /\ ~IsRaise(ret)
  /\ call.a.names = ListV(<<N_Germany, N_Germany>>)
  /\ ret = ListV(<<StrV(<<"D","E","U">>), StrV(<<"D","E","U">>)>>)

\* C9 (as claimed): convert with src and from_class both given and different
\* fails with the conflicting-arguments error and converts nothing; with src
\* given and from_class unset it goes on as with from_class = src.
C9_AliasConflictFails ==
  /\ ( /\ ConvertReturned
       /\ call.a.src # None
       /\ call.a.from_class # None
       /\ call.a.src # call.a.from_class )
     => (IsRaise(ret) /\ trace = <<>>)
  /\ (ConvertReturned /\ call.a.src # None /\ call.a.from_class = None)
     => ret = convert(Table, call.only_UNmember,
                      [call.a EXCEPT !.from_class = call.a.src, !.src = None],
                      call.order).ret

\* C10 (as claimed): a re-key is all or nothing: when set_source fails, the
\* active scheme and the data of the table are both as they were.
C10_RekeyAllOrNothing ==
  [][ (pc = "idle" /\ call'.op = "set_source" /\ IsRaise(ret'))
      => (source_classification' = source_classification /\ data' = data) ]_vars

(***************************************************************************)
(* Round trips: a record's own value for a scheme is converted to another  *)
(* scheme, and what comes out is converted back.                           *)
(***************************************************************************)
\* the schemes a round trip goes between
RoundTripSchemes == {S_iso2, S_iso3, S_isonumeric, S_name_short, S_regex}

\* the name of the field of a record that holds its value for a scheme
FieldOf(scheme) ==
  IF scheme = S_iso2 THEN StrV(<<"I","S","O","2">>)
  ELSE IF scheme = S_iso3 THEN StrV(<<"I","S","O","3">>)
  ELSE scheme

\* the own value of the i-th record for a scheme: its top key for regex
OwnValue(i, scheme) ==
  IF scheme = S_regex THEN StrV(country_data[i].k.s)
  ELSE DictGet(country_data[i].v, FieldOf(scheme))

\* the round trips: a record's value for A, to B and back
RoundTrips ==
  { [op |-> "round_trip", value |-> OwnValue(i, A), A |-> A, B |-> B] :
      i \in 1..Len(country_data), A \in RoundTripSchemes, B \in RoundTripSchemes }

InitRoundTrip ==
  /\ source_classification = InitialTable.sc
  /\ data = InitialTable.data
  /\ pc = "start"
  /\ call \in { c \in RoundTrips : c.value # StrV(<<>>) }
  /\ ret = None
  /\ corr = <<>>
  /\ trace = <<>>

\* convert(value, from_class=A, to=B)
Forth ==
  /\ pc = "start"
  /\ \E r \in {convert(Table, FALSE,
                       [DefaultArgs(call.value) EXCEPT !.from_class = call.A,
                                                       !.to = call.B],
                       <<call.value>>)} :
        /\ source_classification' = r.sc
        /\ data' = r.data
        /\ ret' = r.ret
  /\ pc' = "forth"
  /\ UNCHANGED <<call, corr, trace>>

\* convert(what Forth returned, from_class=B, to=A); an exception that Forth
\* raised ends the round trip
Back ==
  /\ pc = "forth"
  /\ IF IsRaise(ret)
     THEN UNCHANGED <<source_classification, data, ret>>
     ELSE \E order \in Orders(Elements(ret)) :
          \E r \in {convert(Table, FALSE,
                            [DefaultArgs(ret) EXCEPT !.from_class = call.B,
                                                     !.to = call.A],
                            order)} :
             /\ source_classification' = r.sc
             /\ data' = r.data
             /\ ret' = r.ret
  /\ pc' = "back"
  /\ trace' = <<ret>>
  /\ UNCHANGED <<call, corr>>

NextRoundTrip == Forth \/ Back

SpecRoundTrip == InitRoundTrip /\ [][NextRoundTrip]_vars

\* the value matches more than one key of the table keyed by the scheme
Ambiguous(value, scheme) ==
  /\ scheme \in {S_regex, S_iso2}
  /\ value.t = "str"
  /\ LET d == set_source(InitialTable, scheme).data
     IN Cardinality({ i \in 1..Len(d) : Search(d[i].k.s, StrLower(value.s)) }) > 1

\* C11 (as claimed): for every record and every two schemes A, B among iso2,
\* iso3, isonumeric, name_short and regex, the record's own value for A
\* converted to B and the result converted back to A is the value again,
\* unless the value is ambiguous under regex or iso2 matching.  Stated for
\* the schemes that are fields of the records: iso2, iso3, isonumeric and
\* name_short.
C11_RoundTrip ==
  ( /\ pc = "back"
    /\ call.A # S_regex
    /\ call.B # S_regex
    /\ ~Ambiguous(call.value, call.A) )
  => ret = call.value

\* C12 (as claimed): a `to` that is close to no scheme name is taken as
\* unset (None) and is no reason for convert to raise: a call whose names
\* convert to iso3 without an exception also completes with such a `to`.
C12_FuzzMissCompletes ==
  ( /\ ConvertReturned
    /\ call.a.to = S_qqq
    /\ ~IsRaise(convert(Table, call.only_UNmember, [call.a EXCEPT !.to = S_iso3],
                        call.order).ret) )
  => (_validate_class(Table, call.a.to) = None /\ ~IsRaise(ret))

\* C13 (as claimed): convert takes a str or int name alone as a list of one
\* name and resolves it; it fails with TypeError only when names is neither
\* such a scalar nor iterable, and then the table is not re-keyed.
C13_ScalarNamesAccepted ==
  [][ (pc = "idle" /\ call'.op = "convert" /\ ret' = Raise("TypeError"))
      => /\ call'.a.names.t \notin {"str", "int", "list"}
         /\ source_classification' = source_classification
         /\ data' = data ]_vars

\* C14 (as claimed): the mapping that correspondence_dictionary returns has
\* exactly one entry for every distinct key passed in, under that key as it
\* was passed: its keys are the distinct input keys, also with exclude_prefix.
C14_OneEntryPerKey ==
  (CorrespondenceReturned /\ ~IsRaise(ret))
  => /\ { corr[i].k : i \in 1..Len(corr) } = Range(call.a.keys.l)
     /\ Len(corr) = Cardinality(Range(call.a.keys.l))

\* the places in the table of the keys that the key of a match_key call
\* matches, in the order of the table
Matching ==
  LET hit(i) == data[i].k.t = "re" /\ Search(data[i].k.s, StrLower(call.a.key.s))
  IN SelectSeq([i \in 1..Len(data) |-> i], hit)

\* the value of the target field of the i-th entry of the table; for the
\* target iso2 the letters of its first alternative
TargetOf(i) ==
  LET raw == DictGet(data[i].v, call.a.target)
  IN IF call.a.target = S_iso2
     THEN StrV(SelectSeq(SplitOn(raw.s, "|")[1], IsLetter))
     ELSE raw

RecordSchemes == {S_iso2, S_iso3, S_isonumeric, S_name_short, S_unmember}

\* the value record j of the data file holds for the active scheme
ValueOf(j) == DictGet(country_data[j].v, FieldOf(source_classification))

\* the key of the table a value of the active scheme is filed under
KeyOf(v) ==
  IF source_classification = S_iso2 THEN Pattern(StrLower(v.s))
  ELSE _check_int(LowerKey(v))

NameOf(j) == DictGet(country_data[j].v, S_name_short)

\* the last record of the data file whose value is filed under the key of v
LastWith(v) ==
  CHOOSE j \in 1..Len(country_data) :
    /\ ValueOf(j) # StrV(<<>>) /\ KeyOf(ValueOf(j)) = KeyOf(v)
    /\ \A h \in (j + 1)..Len(country_data) :
         ValueOf(h) = StrV(<<>>) \/ KeyOf(ValueOf(h)) # KeyOf(v)

\* C16: whenever the table is keyed by a scheme other than regex, no entry
\* has the empty string as its key, a record of the data file whose value for
\* the scheme is empty has no entry, every other record is represented under
\* the key derived from its value, and when several records share a value
\* the entry under that key is the last of them in the data file.
C16_RekeyDropsEmptyLastWins ==
  source_classification \in RecordSchemes =>
    /\ \A i \in 1..Len(data) : data[i].k \notin {StrV(<<>>), Pattern(<<>>)}
    /\ \A j \in 1..Len(country_data) :
         IF ValueOf(j) = StrV(<<>>)
         THEN \A i \in 1..Len(data) : DictGet(data[i].v, S_name_short) # NameOf(j)
         ELSE /\ DictHas(data, KeyOf(ValueOf(j)))
              /\ DictGet(DictGet(data, KeyOf(ValueOf(j))), S_name_short)
                   = NameOf(LastWith(ValueOf(j)))

\* the table was re-keyed on unmember: Hong Kong and Kosovo, with no value,
\* are gone, and East Germany, not Germany, is the entry of 1973
C16_Witness ==
  /\ pc = "returned" /\ call.op = "set_source"
  /\ source_classification = S_unmember
  /\ Len(data) = 2
  /\ DictGet(DictGet(data, IntV(1973)), S_name_short) = StrV(<<"G","D","R">>)

(***************************************************************************)
(* Callers in threads.  correspondence_dictionary runs statement by        *)
(* statement, a thread being suspended between any two of them.  Here the  *)
(* variables are read per table and per thread: source_classification and  *)
(* data map each table to its fields, pc, call, ret and corr map each      *)
(* thread to its position, its call, its exception and its local match,    *)
(* and trace tells how the threads use the tables: "shared" is DATA used   *)
(* by both at once, "serialized" is DATA used by one call at a time, and   *)
(* "unshared" is a ClassificationData of its own for each thread.          *)
(***************************************************************************)
Threads == {"t1", "t2"}

Sharing == {"shared", "serialized", "unshared"}

Tables == {"DATA"} \cup Threads

\* the table the thread t calls on
TableOf(t) == IF trace = "unshared" THEN t ELSE "DATA"

TableAt(t) ==
  [sc |-> source_classification[TableOf(t)], data |-> data[TableOf(t)]]

ThreadKeys == { <<N_DEU>>, <<N_DEU, N_344>> }

ThreadArgs ==
  { [keys |-> ListV(k), source |-> sr, target |-> S_iso3] :
      k \in ThreadKeys, sr \in {S_iso3, S_isonumeric, S_bogus} }

InitThreads ==
  /\ trace \in Sharing
  /\ source_classification = [x \in Tables |-> InitialTable.sc]
  /\ data = [x \in Tables |-> InitialTable.data]
  /\ pc = [t \in Threads |-> "idle"]
  /\ call = [t \in Threads |-> NoCall]
  /\ ret = [t \in Threads |-> None]
  /\ corr = [t \in Threads |-> <<>>]

\* the thread t calls correspondence_dictionary(keys, source=, target=): rest
\* is what the loop has still to take from set(keys)
ThreadCall(t) ==
  /\ pc[t] = "idle"
  /\ trace = "serialized" => \A u \in Threads : pc[u] = "idle"
  /\ \E a \in ThreadArgs : \E order \in Orders(a.keys.l) :
       call' = [call EXCEPT ![t] = [op |-> "correspondence_dictionary",
                                    a |-> a, rest |-> order]]
  /\ pc' = [pc EXCEPT ![t] = "for"]
  /\ UNCHANGED <<source_classification, data, ret, corr, trace>>

\* the head of the loop and the test before set_source
ThreadFor(t) ==
  /\ pc[t] = "for"
  /\ pc' = [pc EXCEPT ![t] =
              IF call[t].rest = <<>> THEN "returned"
              ELSE IF call[t].a.source # TableAt(t).sc THEN "set_source"
              ELSE "match_key"]
  /\ UNCHANGED <<source_classification, data, call, ret, corr, trace>>

\* set_source up to the assignment of source_classification
ThreadSetSource(t) ==
  /\ pc[t] = "set_source"
  /\ IF call[t].a.source = TableAt(t).sc
     THEN /\ pc' = [pc EXCEPT ![t] = "match_key"]
          /\ UNCHANGED source_classification
     ELSE /\ source_classification' =
               [source_classification EXCEPT ![TableOf(t)] = call[t].a.source]
          /\ pc' = [pc EXCEPT ![t] = "read"]
  /\ UNCHANGED <<data, call, ret, corr, trace>>

\* the rest of set_source: the data is read and assigned, or the reading raises
ThreadRead(t) ==
  /\ pc[t] = "read"
  /\ \E r \in {_read_classification_json(call[t].a.source, lower)} :
       IF IsRaise(r.err)
       THEN /\ ret' = [ret EXCEPT ![t] = r.err]
            /\ pc' = [pc EXCEPT ![t] = "returned"]
            /\ UNCHANGED data
       ELSE /\ data' = [data EXCEPT ![TableOf(t)] = r.val]
            /\ pc' = [pc EXCEPT ![t] = "match_key"]
            /\ UNCHANGED ret
  /\ UNCHANGED <<source_classification, call, corr, trace>>

\* match[_] = self.match_key(key=_, target=target, default=_)
ThreadMatchKey(t) ==
  /\ pc[t] = "match_key"
  /\ \E m \in {match_key(TableAt(t), Head(call[t].rest), call[t].a.target,
                         Head(call[t].rest))} :
       IF IsRaise(m)
       THEN /\ ret' = [ret EXCEPT ![t] = m]
            /\ pc' = [pc EXCEPT ![t] = "returned"]
            /\ UNCHANGED <<call, corr>>
       ELSE /\ corr' = [corr EXCEPT ![t] = DictSet(corr[t], Head(call[t].rest), m)]
            /\ call' = [call EXCEPT ![t].rest = Tail(call[t].rest)]
            /\ pc' = [pc EXCEPT ![t] = "for"]
            /\ UNCHANGED ret
  /\ UNCHANGED <<source_classification, data, trace>>

\* the caller takes the mapping or the exception
ThreadReturn(t) ==
  /\ pc[t] = "returned"
  /\ pc' = [pc EXCEPT ![t] = "idle"]
  /\ call' = [call EXCEPT ![t] = NoCall]
  /\ ret' = [ret EXCEPT ![t] = None]
  /\ corr' = [corr EXCEPT ![t] = <<>>]
  /\ UNCHANGED <<source_classification, data, trace>>

NextThreads ==
  \E t \in Threads :
    \/ ThreadCall(t)
    \/ ThreadFor(t)
    \/ ThreadSetSource(t)
    \/ ThreadRead(t)
    \/ ThreadMatchKey(t)
    \/ ThreadReturn(t)

SpecThreads == InitThreads /\ [][NextThreads]_vars

\* the data d is the data file keyed by the scheme
KeyedBy(d, scheme) ==
  \E r \in {_read_classification_json(scheme, lower)} :
    ~IsRaise(r.err) /\ d = r.val

\* the thread t is about to look a key up in data that is not keyed by the
\* source of its call
LooksUpOnOtherScheme(t) ==
  pc[t] = "match_key" /\ ~KeyedBy(TableAt(t).data, call[t].a.source)

\* two threads on DATA at once: t2 has written isonumeric as the active
\* scheme and not yet replaced the data when t1, whose source is isonumeric
\* too, finds the active scheme to be its own and looks up in the data keyed
\* by regex
Race ==
  /\ trace = "shared"
  /\ pc["t2"] = "read" /\ call["t2"].a.source = S_isonumeric
  /\ call["t1"].op = "correspondence_dictionary"
  /\ call["t1"].a.source = S_isonumeric
  /\ LooksUpOnOtherScheme("t1")
  /\ data["DATA"] = InitialTable.data

\* C17 (as claimed): when the calls are serialized, or when each thread has a
\* table of its own, no call ever looks a key up in data keyed by a scheme
\* other than the source the call selected (two calls on the shared table at
\* once do reach such a state, Race).
C17_SerializedNeverOnOtherScheme ==
  trace \in {"serialized", "unshared"} =>
    \A t \in Threads : ~LooksUpOnOtherScheme(t)

(***************************************************************************)
(* A call after other calls, and the same call on a new table.             *)
(***************************************************************************)
\* the call that returned, made on DATA as ClassificationData() builds it
OnFreshTable ==
  correspondence_dictionary(InitialTable, call.a.keys.l, call.a.source,
                            call.a.target, call.a.default,
                            call.a.exclude_prefix, call.order)

\* C18: whatever calls were made on the table before, and however they
\* ended, a correspondence_dictionary call that declares a valid source
\* returns the mapping, or raises the exception, that the same call gives on
\* a newly built table.
C18_HistoryIndependent ==
  (CorrespondenceReturned /\ call.a.source \in {S_iso3, S_regex}) =>
    /\ corr = OnFreshTable.match
    /\ ret = OnFreshTable.err

\* a call with the source iso3 returned a mapping on a table that a failed
\* re-key had left with the active scheme "bogus"
C18_Witness ==
  /\ CorrespondenceReturned
  /\ call.before = S_bogus
  /\ call.a.source = S_iso3
  /\ ~IsRaise(ret)
  /\ corr # <<>>

====
